---- MODULE Spec2Model ----
(***************************************************************************)
(* burn.rate: the daily food log store.                                    *)
(*                                                                         *)
(* The repository holds two programs over the same food_logs.json file:    *)
(* the single script src/burn.rate.py and the modular application whose    *)
(* handlers live in src/modules/.  A session runs one of them (app).       *)
(*                                                                         *)
(* Units: calories are kcal (integers); protein, fat and carbs are kept    *)
(* in tenths of a gram, so the float 0.3 of the source is the integer 3    *)
(* and round(x, 1) yields an integer number of tenths.  Indices are the    *)
(* 0-based Python indices of the source; a list is a TLA+ sequence, so     *)
(* Python's lst[i] is seq[i + 1].                                          *)
(*                                                                         *)
(* Spec follows a session: its handlers, and the run st.rerun() starts     *)
(* after an import.  PureSpec applies the functions that have no state     *)
(* (calculate_daily_totals, search_foods, calculate_nutrition,             *)
(* normalize_text) once to each input of a bounded set.  A string is the   *)
(* sequence of its characters; the fuzzywuzzy scorers are a library and    *)
(* enter search_foods as score tables.                                     *)
(***************************************************************************)
EXTENDS Integers, Sequences, FiniteSets, TLC

\* ------------------------------------------------------------------ bounds
\* Most entries the whole store may hold (guards of add and import).
MaxEntries == 2
\* Most failed writes of food_logs.json in one behaviour.
MaxSaveFailures == 1
\* rows of a catalog that is searched
MaxRows == 3
\* characters of a text that is normalized
MaxText == 3

\* ------------------------------------------------------------------ inputs
Dates == {"2024-01-01", "2024-01-02"}
\* date.today(), the default of the date widget
Today == "2024-01-01"
\* values of the "Mass (g)" number_input (min_value=1, max_value=1000)
Masses == {116, 130}

\* search_foods(query, food_db, limit=20)
DefaultLimit == 20

\* The catalog the session offers: FoodID, FoodName, Calories and the
\* three macros per 100 g (macros in tenths of a gram).
food_db ==
  << [FoodID |-> 1, FoodName |-> "Apple", Calories |-> 52,
      Protein |-> 3, Fat |-> 2, Carbs |-> 114] >>

Foods == {food_db[n] : n \in 1..Len(food_db)}

\* a row of another catalog, met only in entries that arrive from files
OtherFood ==
  [FoodID |-> 2, FoodName |-> "Rice", Calories |-> 25,
   Protein |-> 25, Fat |-> 5, Carbs |-> 50]

\* A key that a dict-shaped entry does not have.
Absent == 0 - 1
AbsentName == "<absent>"

\* ------------------------------------------------- binary64 arithmetic
\* The source computes v * (weight_in_grams / 100) in IEEE-754 doubles.
\* For integers v and w the exact value is v*w/100; the operators below
\* decide, with integer arithmetic only, whether the double the source
\* obtains lies below the exact value when that value is an integer.

RECURSIVE Pow2(_)
Pow2(n) == IF n = 0 THEN 1 ELSE 2 * Pow2(n - 1)

RECURSIVE Pow2Mod100(_)
Pow2Mod100(n) == IF n = 0 THEN 1 ELSE (2 * Pow2Mod100(n - 1)) % 100

\* largest e >= 0 with den * 2^e <= n   (for n >= den)
RECURSIVE FloorLog2(_, _, _)
FloorLog2(n, den, e) ==
  IF den * Pow2(e + 1) <= n THEN FloorLog2(n, den, e + 1) ELSE e

\* smallest e >= 1 with n * 2^e >= den  (for 0 < n < den)
RECURSIVE NegLog2(_, _, _)
NegLog2(n, den, e) ==
  IF n * Pow2(e) < den THEN NegLog2(n, den, e + 1) ELSE e

\* binary exponent b of w/100: 2^b <= w/100 < 2^(b+1)
FactorExp(w) == IF w >= 100 THEN FloorLog2(w, 100, 0) ELSE 0 - NegLog2(w, 100, 1)

\* fl(w/100) = w/100 - d / (100 * 2^(52-b)): d is the signed remainder
\* of rounding w * 2^(52-b) / 100 to the nearest integer (no tie occurs).
FactorDev(w) ==
  LET r == (w * Pow2Mod100(52 - FactorExp(w))) % 100
  IN  IF r < 50 THEN r ELSE r - 100

\* TRUE iff float(v) * (w / 100) < v*w/100, for 100 | v*w: the product
\* v * fl(w/100) is below the integer k = v*w/100 by v*d/100 units of
\* 2^(b-52) and is rounded to the nearest double; it stays below k iff
\* that distance exceeds half the spacing of the doubles just below k.
FloatBelow(v, w) ==
  IF v = 0 \/ FactorDev(w) <= 0 THEN FALSE
  ELSE LET b == FactorExp(w)
           d == FactorDev(w)
           k == (v * w) \div 100
           a == FloorLog2(k, 1, 0)
           half == IF k = Pow2(a) THEN 25 ELSE 50
           lhs == IF b >= 0 THEN v * d * Pow2(b) ELSE v * d
           rhs == IF b >= 0 THEN half * Pow2(a) ELSE half * Pow2(a) * Pow2(0 - b)
       IN  lhs > rhs

\* Inputs (per-100g macro in tenths, mass) whose exact product ends in 5
\* hundredths and whose double lies below that midpoint, so that
\* round(x, 1) goes down: round(2.5 * (130 / 100), 1) = 3.2.  The other
\* midpoint of the inputs modelled, 0.5 * (130 / 100), lies above: 0.7.
MidpointBelow == {<<25, 130>>}

\* ------------------------------------------------ Nutrition Calculator
\* calculate_nutrition: every base value times weight/100.  A scaled value
\* is kept as the pair it was computed from; its exact value is v*w/100.
calculate_nutrition(base_values, weight_in_grams) ==
  [k \in DOMAIN base_values |-> [v |-> base_values[k], w |-> weight_in_grams]]

\* int(x) of a scaled value: truncation of the double
PyInt(x) ==
  IF (x.v * x.w) % 100 = 0 /\ FloatBelow(x.v, x.w)
  THEN (x.v * x.w) \div 100 - 1
  ELSE (x.v * x.w) \div 100

\* round(float(x), 1) of a scaled macro, in tenths: nearest tenth of the double
PyRound1(x) ==
  LET n == x.v * x.w
  IN  IF n % 100 < 50 THEN n \div 100
      ELSE IF n % 100 > 50 THEN n \div 100 + 1
      ELSE IF <<x.v, x.w>> \in MidpointBelow THEN n \div 100
      ELSE n \div 100 + 1

\* ------------------------------------------------------------- entries
\* the log_entry dict of add_food_to_log (time_added, the wall-clock
\* HH:MM of creation, is display-only and left out)
log_entry(food, weight) ==
  LET nutrition == calculate_nutrition(
          [calories |-> food.Calories, protein |-> food.Protein,
           fat |-> food.Fat, carbs |-> food.Carbs], weight)
  IN  [food_id |-> food.FoodID,
       food_name |-> food.FoodName,
       weight_g |-> weight,
       calories |-> food.Calories,
       protein |-> food.Protein,
       fat |-> food.Fat,
       carbs |-> food.Carbs,
       total_calories |-> PyInt(nutrition.calories),
       total_protein |-> PyRound1(nutrition.protein),
       total_fat |-> PyRound1(nutrition.fat),
       total_carbs |-> PyRound1(nutrition.carbs)]

\* --------------------------------------------------------------- state
VARIABLES
  file,           \* food_logs.json: [kind, logs]
  app,            \* the program the session runs: "none", "script", "modules"
  food_logs,      \* st.session_state.food_logs: date key -> list of entries
  logs_type,      \* Python type of st.session_state.food_logs: "none", "dict", "other"
  date_selector,  \* value of the date widget, as a date key
  msgs,           \* what the last run reported: st.success / st.error / ...
  failures,       \* failed writes of food_logs.json so far
  last,           \* the handler run last, the path it took and its inputs
  uploader,       \* the file in st.file_uploader while a requested rerun is pending
  call,           \* a function applied on its own: its name and arguments
  ret             \* what that call returned: [raised, value]

vars == <<file, app, food_logs, logs_type, date_selector, msgs, failures, last,
          uploader, call, ret>>

\* the state of a session
session == <<file, app, food_logs, logs_type, date_selector, msgs, failures, last,
             uploader>>

\* no function applied on its own
NoCall == [fn |-> "none"]
NoRet == [raised |-> FALSE, value |-> 0]

\* the empty dict {}
EmptyLogs == [d \in {} |-> <<>>]

\* contents food_logs.json can have: absent, zero bytes, not JSON, JSON
\* that is not an object (a list, a number, a string), a JSON object
FileKinds == {"missing", "empty", "garbage", "other", "dict"}

NoFile(kind) == [kind |-> kind, logs |-> EmptyLogs]

NoUpload == [kind |-> "none", items |-> <<>>]

\* op: the handler; branch: the path it took; write: the outcome of its
\* write of the file ("none" when it did not write); date, index, weight,
\* upload: the inputs of a handler that went through and of an import
\* (defaults otherwise)
Op(name, branch, write, date, index, weight, upload) ==
  [op |-> name, branch |-> branch, write |-> write, date |-> date,
   index |-> index, weight |-> weight, upload |-> upload]

\* a handler without inputs, or one that stopped before changing anything
Ran(name, branch) == Op(name, branch, "none", Today, 0, 0, NoUpload)

\* outcomes of open('food_logs.json', 'w') followed by json.dump: written,
\* or the write raised after open had truncated the file
WriteOutcomes == {"ok", "truncated"}

RECURSIVE TotalEntries(_, _)
TotalEntries(logs, ds) ==
  IF ds = {} THEN 0
  ELSE LET d == CHOOSE x \in ds : TRUE
       IN  Len(logs[d]) + TotalEntries(logs, ds \ {d})

Size(logs) == TotalEntries(logs, DOMAIN logs)

\* logs[date] = value, adding the key when it is new
SetKey(logs, date, value) ==
  [d \in DOMAIN logs \cup {date} |-> IF d = date THEN value ELSE logs[d]]

\* a date initialisation that creates nothing
InitDateSkipped(logs, date_str) == logs

\* "if date_str not in st.session_state.food_logs: ...[date_str] = []"
InitDate(logs, date_str) ==
  IF date_str \notin DOMAIN logs THEN SetKey(logs, date_str, <<>>) ELSE logs

\* the keys the display loop of the food log reads from an entry; reading
\* a missing one raises KeyError and ends the run
Displayable(entry) ==
  /\ entry.food_name # AbsentName
  /\ entry.weight_g # Absent
  /\ entry.total_calories # Absent
  /\ entry.total_protein # Absent
  /\ entry.total_fat # Absent
  /\ entry.total_carbs # Absent

DisplayRaises(entries) == \E n \in 1..Len(entries) : ~Displayable(entries[n])

\* validate_food_entry
validate_food_entry(entry) ==
  /\ entry.food_id # Absent
  /\ entry.food_name # AbsentName
  /\ entry.weight_g # Absent
  /\ entry.total_calories # Absent

\* [entry for entry in entries if validate_food_entry(entry)]
valid_entries(entries) == SelectSeq(entries, validate_food_entry)

\* ----------------------------------------------------------- persistence
\* a write that is put off: the file keeps what it held
WrittenLater(logs, wr) ==
  CASE wr = "ok" -> file
    [] wr = "truncated" -> NoFile("empty")

\* what the file holds after a write attempt of logs
Written(logs, wr) ==
  CASE wr = "ok" -> [kind |-> "dict", logs |-> logs]
    [] wr = "truncated" -> NoFile("empty")

\* save_food_logs: writes the whole store, returns True iff the write
\* succeeded and reports st.error otherwise
save_food_logs(logs, wr) ==
  /\ wr # "ok" => failures < MaxSaveFailures
  /\ file' = Written(logs, wr)
  /\ failures' = IF wr = "ok" THEN failures ELSE failures + 1

SaveMsgs(wr) == IF wr = "ok" THEN {} ELSE {"error"}

\* ------------------------------------------------------------ Init
\* entries that did not come from add_food_to_log (an uploaded file, a
\* file written by hand): a complete one, one without the food_name key,
\* one without the per-100g keys
FullEntry == log_entry(food_db[1], 137)
NoNameEntry == [log_entry(OtherFood, 116) EXCEPT !.food_name = AbsentName]
NoMacrosEntry == [log_entry(food_db[1], 130) EXCEPT !.calories = Absent,
                     !.protein = Absent, !.fat = Absent, !.carbs = Absent]

\* what food_logs.json holds when a session starts: no usable content,
\* or a store saved by an earlier session (saved after an import, it can
\* hold entries that lack keys)
InitialFiles ==
  {NoFile(k) : k \in FileKinds}
    \cup {[kind |-> "dict", logs |-> [d \in {"2024-01-01"} |-> <<NoNameEntry, FullEntry>>]],
          [kind |-> "dict", logs |-> [d \in {"2024-01-02"} |-> <<NoMacrosEntry>>]]}

Init ==
  /\ file \in InitialFiles
  /\ app = "none"
  /\ food_logs = EmptyLogs
  /\ logs_type = "none"
  /\ date_selector = Today
  /\ msgs = {}
  /\ failures = 0
  /\ last = Ran("init", "done")
  /\ uploader = NoUpload
  /\ call = NoCall
  /\ ret = NoRet

\* ------------------------------------------------- session start
\* burn.rate.py: json.load of the file goes into the session as it is,
\* then the script initialises the key of the selected date.
SessionInit ==
  /\ app = "none"
  /\ app' = "script"
  /\ date_selector' = Today
  /\ LET loaded == IF file.kind = "dict" THEN file.logs ELSE EmptyLogs
     IN  IF file.kind = "other"
         THEN /\ logs_type' = "other"
              /\ food_logs' = EmptyLogs
              \* date_str not in / item assignment on a non-dict: TypeError
              /\ msgs' = {"exception"}
         ELSE /\ logs_type' = "dict"
              /\ food_logs' = InitDate(loaded, Today)
              /\ msgs' = (IF file.kind = "garbage" THEN {"warning"} ELSE {})
                           \cup (IF Today \in DOMAIN loaded /\ DisplayRaises(loaded[Today])
                                 THEN {"exception"} ELSE {})
  /\ last' = Ran("SessionInit", file.kind)
  /\ UNCHANGED <<file, failures>>
  /\ UNCHANGED <<uploader, call, ret>>

\* load_food_logs: {} unless the file parses to a dict, whose entries are
\* filtered by validate_food_entry; then render_overview_section
load_food_logs ==
  /\ app = "none"
  /\ app' = "modules"
  /\ date_selector' = Today
  /\ logs_type' = "dict"
  /\ LET valid_logs == IF file.kind = "dict"
                       THEN [d \in DOMAIN file.logs |-> valid_entries(file.logs[d])]
                       ELSE EmptyLogs
     IN  /\ food_logs' = InitDate(valid_logs, Today)
         /\ msgs' = IF file.kind \in {"garbage", "other"} THEN {"warning"} ELSE {}
  /\ last' = Ran("load_food_logs", file.kind)
  /\ UNCHANGED <<file, failures>>
  /\ UNCHANGED <<uploader, call, ret>>

\* ------------------------------------------------- date selection
\* burn.rate.py: the run after the date widget changed
DateInput(d) ==
  /\ app = "script"
  /\ d # date_selector
  /\ date_selector' = d
  /\ IF logs_type = "other"
     THEN /\ msgs' = {"exception"}
          /\ UNCHANGED food_logs
     ELSE /\ food_logs' = InitDate(food_logs, d)
          /\ msgs' = IF d \in DOMAIN food_logs /\ DisplayRaises(food_logs[d])
                     THEN {"exception"} ELSE {}
  /\ last' = Ran("DateInput", IF logs_type = "other" THEN "TypeError"
                              ELSE IF d \in DOMAIN food_logs THEN "present"
                              ELSE "created")
  /\ UNCHANGED <<file, app, logs_type, failures>>
  /\ UNCHANGED <<uploader, call, ret>>

\* render_overview_section: creates the list of the selected date
render_overview_section(d) ==
  /\ app = "modules"
  /\ uploader = NoUpload
  /\ d # date_selector
  /\ date_selector' = d
  /\ food_logs' = InitDate(food_logs, d)
  /\ msgs' = {}
  /\ last' = Ran("render_overview_section",
                 IF d \in DOMAIN food_logs THEN "present" ELSE "created")
  /\ UNCHANGED <<file, app, logs_type, failures>>
  /\ UNCHANGED <<uploader, call, ret>>

\* ------------------------------------------------------------ append
\* add_food_to_log of ui_components.py: append to the list of the selected
\* date, save, report
add_food_to_log(food, weight, wr) ==
  /\ app = "modules"
  /\ uploader = NoUpload
  /\ date_selector \in DOMAIN food_logs
  /\ Size(food_logs) < MaxEntries
  /\ food_logs' = [food_logs EXCEPT ![date_selector] = Append(@, log_entry(food, weight))]
  /\ save_food_logs(food_logs', wr)
  /\ msgs' = IF wr = "ok" THEN {"success"} ELSE {"error"}
  /\ last' = Op("add_food_to_log", "done", wr, date_selector,
                Len(food_logs[date_selector]), weight, NoUpload)
  /\ UNCHANGED <<app, logs_type, date_selector>>
  /\ UNCHANGED <<uploader, call, ret>>

\* add_food_to_log of burn.rate.py: the write is not guarded, a failure
\* is an uncaught exception
AddBlock(food, weight, wr) ==
  /\ app = "script"
  /\ logs_type = "dict"
  /\ date_selector \in DOMAIN food_logs
  /\ Size(food_logs) < MaxEntries
  /\ food_logs' = [food_logs EXCEPT ![date_selector] = Append(@, log_entry(food, weight))]
  /\ save_food_logs(food_logs', wr)
  /\ msgs' = IF wr = "ok" THEN {"success"} ELSE {"exception"}
  /\ last' = Op("AddBlock", "done", wr, date_selector,
                Len(food_logs[date_selector]), weight, NoUpload)
  /\ UNCHANGED <<app, logs_type, date_selector>>
  /\ UNCHANGED <<uploader, call, ret>>

\* ------------------------------------------------------- update mass
\* position (1-based) of Python's lst[index], 0 when it raises IndexError;
\* a negative index counts from the end of the list
PyIndex(entries, index) ==
  IF 0 <= index /\ index < Len(entries) THEN index + 1
  ELSE IF index < 0 /\ 0 - index <= Len(entries) THEN Len(entries) + index + 1
  ELSE 0

\* the exception of the lookup logs[date_str][index]: KeyError for a
\* date key the dict lacks, IndexError for an index outside the list;
\* otherwise the entry is found and a key of the entry is missing
LookupError(logs, date_str, index) ==
  IF date_str \notin DOMAIN logs THEN "KeyError_date"
  ELSE IF PyIndex(logs[date_str], index) = 0 THEN "IndexError"
  ELSE "KeyError_field"

\* the entry has the four per-100g keys calculate_nutrition is fed with
HasMacros(entry) ==
  /\ entry.calories # Absent
  /\ entry.protein # Absent
  /\ entry.fat # Absent
  /\ entry.carbs # Absent

\* an update that forgets one of the totals
UpdateEntryStaleFat(entry, new_weight) ==
  LET nutrition == calculate_nutrition(
          [calories |-> entry.calories, protein |-> entry.protein,
           fat |-> entry.fat, carbs |-> entry.carbs], new_weight)
  IN  [entry EXCEPT !.weight_g = new_weight,
                    !.total_calories = PyInt(nutrition.calories),
                    !.total_protein = PyRound1(nutrition.protein),
                    !.total_carbs = PyRound1(nutrition.carbs)]

\* the five assignments of update_food_entry
UpdateEntry(entry, new_weight) ==
  LET nutrition == calculate_nutrition(
          [calories |-> entry.calories, protein |-> entry.protein,
           fat |-> entry.fat, carbs |-> entry.carbs], new_weight)
  IN  [entry EXCEPT !.weight_g = new_weight,
                    !.total_calories = PyInt(nutrition.calories),
                    !.total_protein = PyRound1(nutrition.protein),
                    !.total_fat = PyRound1(nutrition.fat),
                    !.total_carbs = PyRound1(nutrition.carbs)]

\* the lookups of update_food_entry that raise before anything is changed
UpdateRaises(logs, date_str, index) ==
  \/ date_str \notin DOMAIN logs
  \/ PyIndex(logs[date_str], index) = 0
  \/ ~HasMacros(logs[date_str][PyIndex(logs[date_str], index)])

\* update_food_entry of ui_components.py
update_food_entry(date_str, index, new_weight, wr) ==
  /\ app = "modules"
  /\ uploader = NoUpload
  /\ IF UpdateRaises(food_logs, date_str, index)
     THEN /\ wr = "ok"
          /\ msgs' = {"error"}
          /\ last' = Ran("update_food_entry", LookupError(food_logs, date_str, index))
          /\ UNCHANGED <<file, food_logs, failures>>
     ELSE LET pos == PyIndex(food_logs[date_str], index)
          IN  /\ food_logs' = [food_logs EXCEPT ![date_str][pos] = UpdateEntry(@, new_weight)]
              /\ save_food_logs(food_logs', wr)
              \* the success message reads entry['food_name']
              /\ msgs' = IF wr = "ok" /\ food_logs[date_str][pos].food_name # AbsentName
                         THEN {"success"} ELSE {"error"}
              /\ last' = Op("update_food_entry", "done", wr, date_str, index,
                            new_weight, NoUpload)
  /\ UNCHANGED <<app, logs_type, date_selector>>
  /\ UNCHANGED <<uploader, call, ret>>

\* the run of burn.rate.py reaches the widgets of entry i of the selected
\* date: the entries before it and the entry itself were displayed
Reached(i) ==
  /\ app = "script"
  /\ logs_type = "dict"
  /\ date_selector \in DOMAIN food_logs
  /\ 0 <= i /\ i < Len(food_logs[date_selector])
  /\ \A n \in 1..(i + 1) : Displayable(food_logs[date_selector][n])

\* the "Update" button of burn.rate.py
UpdateBlock(i, new_weight, wr) ==
  /\ Reached(i)
  /\ new_weight # food_logs[date_selector][i + 1].weight_g
  /\ IF ~HasMacros(food_logs[date_selector][i + 1])
     THEN /\ wr = "ok"
          /\ msgs' = {"error"}
          /\ last' = Ran("UpdateBlock", "KeyError_field")
          /\ UNCHANGED <<file, food_logs, failures>>
     ELSE /\ food_logs' = [food_logs EXCEPT ![date_selector][i + 1] = UpdateEntry(@, new_weight)]
          /\ save_food_logs(food_logs', wr)
          /\ msgs' = IF wr = "ok" THEN {"success"} ELSE {"error"}
          /\ last' = Op("UpdateBlock", "done", wr, date_selector, i, new_weight, NoUpload)
  /\ UNCHANGED <<app, logs_type, date_selector>>
  /\ UNCHANGED <<uploader, call, ret>>

\* ------------------------------------------------------------- remove
\* lst.pop(pos)
Pop(entries, pos) == SubSeq(entries, 1, pos - 1) \o SubSeq(entries, pos + 1, Len(entries))

\* the lookup food_logs[date_str][index]['food_name'] of remove_food_entry
RemoveRaises(logs, date_str, index) ==
  \/ date_str \notin DOMAIN logs
  \/ PyIndex(logs[date_str], index) = 0
  \/ logs[date_str][PyIndex(logs[date_str], index)].food_name = AbsentName

\* remove_food_entry of ui_components.py
remove_food_entry(date_str, index, wr) ==
  /\ app = "modules"
  /\ uploader = NoUpload
  /\ IF RemoveRaises(food_logs, date_str, index)
     THEN /\ wr = "ok"
          /\ msgs' = {"error"}
          /\ last' = Ran("remove_food_entry", LookupError(food_logs, date_str, index))
          /\ UNCHANGED <<file, food_logs, failures>>
     ELSE /\ food_logs' = [food_logs EXCEPT
                 ![date_str] = Pop(@, PyIndex(food_logs[date_str], index))]
          /\ save_food_logs(food_logs', wr)
          /\ msgs' = IF wr = "ok" THEN {"success"} ELSE {"error"}
          /\ last' = Op("remove_food_entry", "done", wr, date_str, index, 0, NoUpload)
  /\ UNCHANGED <<app, logs_type, date_selector>>
  /\ UNCHANGED <<uploader, call, ret>>

\* the "Remove" button of burn.rate.py: pop, unguarded write, rerun
RemoveBlock(i, wr) ==
  /\ Reached(i)
  /\ food_logs' = [food_logs EXCEPT ![date_selector] = Pop(@, i + 1)]
  /\ save_food_logs(food_logs', wr)
  /\ msgs' = IF wr = "ok" THEN {} ELSE {"exception"}
  /\ last' = Op("RemoveBlock", "done", wr, date_selector, i, 0, NoUpload)
  /\ UNCHANGED <<app, logs_type, date_selector>>
  /\ UNCHANGED <<uploader, call, ret>>

\* the index arguments tried: valid, negative and past the end
Indices == (0 - MaxEntries - 1) .. MaxEntries

\* ------------------------------------------------------------- import
ImportLists == {<<>>, <<FullEntry>>, <<NoNameEntry, NoMacrosEntry>>}

\* the value under one date key of an uploaded object: a list of entries,
\* or a scalar (a number, null), which cannot be iterated
ImportValues == {[list |-> TRUE, entries |-> l] : l \in ImportLists}
                  \cup {[list |-> FALSE, entries |-> <<>>]}

ImportItems == {[date |-> d, value |-> v] : d \in Dates, v \in ImportValues}

\* uploaded files: not JSON, JSON that is not an object, or an object
\* given by its items in file order (keys are distinct)
Uploads ==
  {[kind |-> "garbage", items |-> <<>>], [kind |-> "other", items |-> <<>>]}
    \cup {[kind |-> "dict", items |-> <<>>]}
    \cup {[kind |-> "dict", items |-> <<a>>] : a \in ImportItems}
    \cup {[kind |-> "dict", items |-> <<a, b>>] :
             <<a, b>> \in {ab \in ImportItems \X ImportItems : ab[1].date # ab[2].date}}

RECURSIVE UploadSize(_, _)
UploadSize(items, n) ==
  IF n > Len(items) THEN 0
  ELSE Len(items[n].value.entries) + UploadSize(items, n + 1)

\* an extend that puts the incoming entries first
ExtendFront(lst, entries) == entries \o lst

\* merged_logs[date].extend(entries)
Extend(lst, entries) == lst \o entries

\* the merge loop of import_logs_from_uploaded_file from item n on.
\* merged_logs is a shallow copy: the list under a date of existing_logs
\* is the same object in both, so extend changes both; a new date goes
\* into merged_logs only.  extend raises on a scalar.
RECURSIVE MergeLoop(_, _, _, _)
MergeLoop(items, n, existing_logs, merged_logs) ==
  IF n > Len(items)
  THEN [success |-> TRUE, existing_logs |-> existing_logs, merged_logs |-> merged_logs]
  ELSE LET date == items[n].date
           value == items[n].value
       IN  IF date \in DOMAIN merged_logs
           THEN IF value.list
                THEN MergeLoop(items, n + 1,
                        IF date \in DOMAIN existing_logs
                        THEN [existing_logs EXCEPT ![date] = Extend(@, value.entries)]
                        ELSE existing_logs,
                        [merged_logs EXCEPT ![date] = Extend(@, value.entries)])
                ELSE [success |-> FALSE, existing_logs |-> existing_logs,
                      merged_logs |-> merged_logs]
           ELSE MergeLoop(items, n + 1, existing_logs,
                          SetKey(merged_logs, date, value.entries))

\* an import without the isinstance check: what is not a dict merges as {}
ImportUnchecked(uploaded_file, existing_logs) ==
  IF uploaded_file.kind = "garbage"
  THEN [success |-> FALSE, existing_logs |-> existing_logs, merged_logs |-> existing_logs]
  ELSE MergeLoop(uploaded_file.items, 1, existing_logs, existing_logs)

\* import_logs_from_uploaded_file: (success, merged_logs), and what the
\* dict passed as existing_logs holds afterwards
import_logs_from_uploaded_file(uploaded_file, existing_logs) ==
  IF uploaded_file.kind # "dict"
  THEN [success |-> FALSE, existing_logs |-> existing_logs, merged_logs |-> existing_logs]
  ELSE MergeLoop(uploaded_file.items, 1, existing_logs, existing_logs)

\* render_settings_section with a file in the uploader
render_settings_section(uploaded_file, wr) ==
  /\ app = "modules"
  /\ uploader = NoUpload
  \* a scalar under a date the store does not have would be stored as
  \* that date's value; the model keeps every value of the store a list
  /\ \A n \in 1..Len(uploaded_file.items) :
        ~uploaded_file.items[n].value.list => uploaded_file.items[n].date \in DOMAIN food_logs
  /\ Size(food_logs) + UploadSize(uploaded_file.items, 1) <= MaxEntries
  /\ LET r == import_logs_from_uploaded_file(uploaded_file, food_logs)
     IN  IF r.success
         THEN /\ food_logs' = r.merged_logs
              /\ save_food_logs(food_logs', wr)
              /\ msgs' = SaveMsgs(wr) \cup {"success"}
              /\ last' = Op("render_settings_section", "merged", wr, Today, 0, 0,
                            uploaded_file)
              \* st.rerun(): the widget keeps the file for the run to come
              /\ uploader' = uploaded_file
         ELSE /\ wr = "ok"
              /\ food_logs' = r.existing_logs
              /\ msgs' = {"error"}
              /\ last' = Op("render_settings_section",
                            IF uploaded_file.kind = "dict" THEN "merge_error"
                            ELSE uploaded_file.kind,
                            "none", Today, 0, 0, uploaded_file)
              /\ UNCHANGED <<file, failures, uploader>>
  /\ UNCHANGED <<app, logs_type, date_selector>>
  /\ UNCHANGED <<call, ret>>

\* what json.load(uploaded_file) finds in the run st.rerun() starts: the
\* widget hands out the file again, readable from its start or left at
\* its end by the first json.load, depending on the Streamlit at hand
ReadOutcomes == {"again", "eof"}

\* the run st.rerun() starts after a successful import: the file is still
\* in the uploader, so render_settings_section imports it once more.  A
\* file at its end does not parse: st.error and no further rerun (the
\* file is then taken out of the uploader before the next interaction).
Rerun(read, wr) ==
  /\ app = "modules"
  /\ uploader # NoUpload
  /\ IF read = "again"
     THEN /\ Size(food_logs) + UploadSize(uploader.items, 1) <= MaxEntries
          /\ LET r == import_logs_from_uploaded_file(uploader, food_logs)
             IN  /\ r.success
                 /\ food_logs' = r.merged_logs
          /\ save_food_logs(food_logs', wr)
          /\ msgs' = SaveMsgs(wr) \cup {"success"}
          /\ last' = Op("Rerun", "merged", wr, Today, 0, 0, NoUpload)
          /\ UNCHANGED uploader
     ELSE /\ wr = "ok"
          /\ msgs' = {"error"}
          /\ last' = Ran("Rerun", "eof")
          /\ uploader' = NoUpload
          /\ UNCHANGED <<file, food_logs, failures>>
  /\ UNCHANGED <<app, logs_type, date_selector, call, ret>>

Next ==
  \/ SessionInit
  \/ load_food_logs
  \/ \E d \in Dates : DateInput(d)
  \/ \E d \in Dates : render_overview_section(d)
  \/ \E food \in Foods, weight \in Masses, wr \in WriteOutcomes : add_food_to_log(food, weight, wr)
  \/ \E food \in Foods, weight \in Masses, wr \in WriteOutcomes : AddBlock(food, weight, wr)
  \/ \E d \in Dates, i \in Indices, w \in Masses, wr \in WriteOutcomes : update_food_entry(d, i, w, wr)
  \/ \E i \in Indices, w \in Masses, wr \in WriteOutcomes : UpdateBlock(i, w, wr)
  \/ \E d \in Dates, i \in Indices, wr \in WriteOutcomes : remove_food_entry(d, i, wr)
  \/ \E i \in Indices, wr \in WriteOutcomes : RemoveBlock(i, wr)
  \/ \E u \in Uploads, wr \in WriteOutcomes : render_settings_section(u, wr)
  \/ \E read \in ReadOutcomes, wr \in WriteOutcomes : Rerun(read, wr)

Spec == Init /\ [][Next]_vars

\* ====================================================================
\* Functions applied on their own
\* ====================================================================

\* no session runs while a function is applied on its own
PureInit ==
  /\ file = NoFile("missing")
  /\ app = "none"
  /\ food_logs = EmptyLogs
  /\ logs_type = "none"
  /\ date_selector = Today
  /\ msgs = {}
  /\ failures = 0
  /\ last = Ran("init", "done")
  /\ uploader = NoUpload
  /\ call = NoCall
  /\ ret = NoRet

Returned(value) == [raised |-> FALSE, value |-> value]

\* ------------------------------------------------------- daily totals
\* sum(entry[key] for entry in log_entries): from 0, left to right
RECURSIVE PySum(_, _, _)
PySum(log_entries, key, acc) ==
  IF log_entries = <<>> THEN acc
  ELSE PySum(Tail(log_entries), key, acc + Head(log_entries)[key])

\* totals that count the protein of the first entry only
DailyTotalsFirstProtein(log_entries) ==
  IF log_entries = <<>>
  THEN [calories |-> 0, protein |-> 0, fat |-> 0, carbs |-> 0]
  ELSE [calories |-> PySum(log_entries, "total_calories", 0),
        protein |-> log_entries[1].total_protein,
        fat |-> PySum(log_entries, "total_fat", 0),
        carbs |-> PySum(log_entries, "total_carbs", 0)]

\* calculate_daily_totals (macros in tenths of a gram)
calculate_daily_totals(log_entries) ==
  IF log_entries = <<>>
  THEN [calories |-> 0, protein |-> 0, fat |-> 0, carbs |-> 0]
  ELSE [calories |-> PySum(log_entries, "total_calories", 0),
        protein |-> PySum(log_entries, "total_protein", 0),
        fat |-> PySum(log_entries, "total_fat", 0),
        carbs |-> PySum(log_entries, "total_carbs", 0)]

\* the entries a list can hold: those add_food_to_log stores, those an
\* update makes of them, and the file-borne ones; all have the four
\* total keys
Entries ==
  {log_entry(f, m) : f \in Foods \cup {OtherFood}, m \in Masses}
    \cup {[log_entry(OtherFood, m) EXCEPT !.food_name = AbsentName] : m \in Masses}
    \cup {FullEntry, NoMacrosEntry}

RECURSIVE ListsOf(_, _)
ListsOf(S, n) ==
  IF n = 0 THEN {<<>>}
  ELSE LET shorter == ListsOf(S, n - 1)
       IN  shorter \cup {Append(l, e) : l \in {x \in shorter : Len(x) = n - 1}, e \in S}

\* the list of a date after op: as it is, after an append, after an
\* update of the entry at pos, after a removal of the entry at pos
ListAfter(entries, op, food, pos, weight) ==
  CASE op = "none" -> entries
    [] op = "append" -> Append(entries, log_entry(food, weight))
    [] op = "update" -> [entries EXCEPT ![pos] = UpdateEntry(@, weight)]
    [] op = "remove" -> Pop(entries, pos)

\* the run after op: the overview computes the totals of the date's list
DailyTotals(entries, op, food, pos, weight) ==
  /\ call = NoCall
  /\ op = "append" => Len(entries) < MaxEntries
  /\ op \in {"update", "remove"} => pos \in 1..Len(entries)
  /\ op = "update" => HasMacros(entries[pos]) /\ weight # entries[pos].weight_g
  /\ LET log_entries == ListAfter(entries, op, food, pos, weight)
     IN  /\ call' = [fn |-> "calculate_daily_totals", op |-> op, log_entries |-> log_entries]
         /\ ret' = Returned(calculate_daily_totals(log_entries))
  /\ UNCHANGED session

\* ------------------------------------------------------------ strings
\* a string is the sequence of its characters
LowerLetters == {"a", "p", "e"}
UpperLetters == {"A", "P", "E"}
Digits == {"7"}
Whitespace == {" "}

\* str.lower and str.upper on one character
LowerChar(c) ==
  CASE c = "A" -> "a" [] c = "P" -> "p" [] c = "E" -> "e" [] OTHER -> c

UpperChar(c) ==
  CASE c = "a" -> "A" [] c = "p" -> "P" [] c = "e" -> "E" [] OTHER -> c

Lower(text) == [n \in 1..Len(text) |-> LowerChar(text[n])]

Upper(text) == [n \in 1..Len(text) |-> UpperChar(text[n])]

\* str.strip(): without the leading and the trailing whitespace
RECURSIVE Strip(_)
Strip(text) ==
  IF text = <<>> THEN text
  ELSE IF Head(text) \in Whitespace THEN Strip(Tail(text))
  ELSE IF text[Len(text)] \in Whitespace THEN Strip(SubSeq(text, 1, Len(text) - 1))
  ELSE text

\* ------------------------------------------------------------- search
\* names of catalog rows: two that differ in case only, and another
FoodNames == {<<"A", "p">>, <<"a", "p">>, <<"P", "e">>}

\* catalogs: FoodID is unique, several rows can have the same FoodName
\* (the macro columns ride along and are left out)
Catalogs ==
  UNION {[1..k -> FoodNames] : k \in 0..MaxRows}

Rows(names) == [n \in 1..Len(names) |-> [FoodID |-> n, FoodName |-> names[n]]]

Queries ==
  {<<>>, <<"a">>, <<" ", "a", " ">>, <<"A", "p">>, <<" ", "a", "P", " ">>, <<"p", "a">>}

Limits == {1, 2, DefaultLimit}

\* utils.full_process of fuzzywuzzy, applied to a choice before it is
\* scored: lower case, stripped (the names have letters only)
full_process(text) == Strip(Lower(text))

\* a scorer gives every processed name a score of 0..100 against the
\* query; the scores below are below, at and above each threshold
TokenSortScores == {50, 60, 80}
PartialScores == {74, 75, 90}
Processed == {full_process(name) : name \in FoodNames}

\* sorted(matches, key=score, reverse=True): stable
RECURSIVE SortedByScore(_)
SortedByScore(matches) ==
  LET RECURSIVE Insert(_, _)
      Insert(sorted, m) ==
        IF sorted = <<>> THEN <<m>>
        ELSE IF Head(sorted).score >= m.score
             THEN <<Head(sorted)>> \o Insert(Tail(sorted), m)
             ELSE <<m>> \o sorted
  IN  IF matches = <<>> THEN <<>>
      ELSE Insert(SortedByScore(SubSeq(matches, 1, Len(matches) - 1)),
                  matches[Len(matches)])

\* process.extract(query, food_names, limit=limit, scorer=scorer): a
\* (name, score) pair for every element of food_names, the limit best
\* of them (heapq.nlargest: by score, equal scores in list order)
extract(scorer, food_names, limit) ==
  LET sl == [n \in 1..Len(food_names) |->
                [name |-> food_names[n], score |-> scorer[full_process(food_names[n])]]]
      best == SortedByScore(sl)
  IN  SubSeq(best, 1, IF limit < Len(best) THEN limit ELSE Len(best))

\* an exact tier that compares the names as they are written
ExactMatchesAsWritten(query, catalog) ==
  SelectSeq(catalog, LAMBDA row : row.FoodName = query)

\* food_db[food_db['FoodName'].str.lower() == query]
exact_matches(query, catalog) ==
  SelectSeq(catalog, LAMBDA row : Lower(row.FoodName) = query)

\* the score the loop over good_matches writes into match_score: that of
\* the first match with the name of the row
match_score(row, good_matches) ==
  LET n == CHOOSE k \in 1..Len(good_matches) :
             /\ good_matches[k].name = row.FoodName
             /\ \A j \in 1..(k - 1) : good_matches[j].name # row.FoodName
  IN  good_matches[n].score

\* result.sort_values('match_score', ascending=False): the default sort
\* (quicksort) is not stable, rows of equal score come in any order
sort_values(result, good_matches) ==
  {[n \in 1..Len(result) |-> result[order[n]]] :
     order \in {o \in Permutations(1..Len(result)) :
                  \A i, j \in 1..Len(result) :
                     i < j => match_score(result[o[i]], good_matches)
                                >= match_score(result[o[j]], good_matches)}}

\* the rows of a fuzzy tier, given its matches above the threshold
tier(catalog, good_matches) ==
  LET matched_names == {good_matches[n].name : n \in 1..Len(good_matches)}
      result == SelectSeq(catalog, LAMBDA row : row.FoodName \in matched_names)
  IN  sort_values(result, good_matches)

\* [match for match in matches if match[1] >= 60]
good_matches_of(matches) == SelectSeq(matches, LAMBDA m : m.score >= 60)

\* [match for match in partial_matches if match[1] >= 75]
good_partial_matches_of(partial_matches) ==
  SelectSeq(partial_matches, LAMBDA m : m.score >= 75)

\* search_foods: the results it can return (one, unless rows tie)
search_foods(query, catalog, limit, token_sort_ratio, partial_ratio) ==
  IF query = <<>> \/ Len(Strip(query)) < 2 THEN {<<>>}
  ELSE LET q == Strip(Lower(query))
           exact == exact_matches(q, catalog)
           food_names == [n \in 1..Len(catalog) |-> catalog[n].FoodName]
           good_matches == good_matches_of(extract(token_sort_ratio, food_names, limit))
           good_partial_matches ==
             good_partial_matches_of(extract(partial_ratio, food_names, limit))
       IN  IF exact # <<>> THEN {exact}
           ELSE IF good_matches # <<>> THEN tier(catalog, good_matches)
           ELSE IF good_partial_matches # <<>> THEN tier(catalog, good_partial_matches)
           ELSE {<<>>}

Search(query, names, limit, token_sort_ratio, partial_ratio) ==
  /\ call = NoCall
  /\ \E result \in search_foods(query, Rows(names), limit, token_sort_ratio, partial_ratio) :
        /\ call' = [fn |-> "search_foods", query |-> query, food_db |-> Rows(names),
                    limit |-> limit, token_sort_ratio |-> token_sort_ratio,
                    partial_ratio |-> partial_ratio]
        /\ ret' = Returned(result)
  /\ UNCHANGED session

\* -------------------------------------------------------- calculator
\* per-100g base values and masses calculate_nutrition is applied to;
\* the function has no check of its own, the number_input of the callers
\* keeps the mass within 1..1000
BaseValues ==
  {[calories |-> 52, protein |-> 3, fat |-> 2, carbs |-> 138],
   [calories |-> 100, protein |-> 100, fat |-> 50, carbs |-> 200],
   [calories |-> 0, protein |-> 0, fat |-> 0, carbs |-> 0]}

Weights == {0 - 50, 0 - 1, 0, 1, 100, 150, 1000, 100000}

\* a call of calculate_nutrition: it returns the scaled dict for every
\* number, there is no statement in it that raises for a mass
Calculate(base_values, weight_in_grams) ==
  /\ call = NoCall
  /\ call' = [fn |-> "calculate_nutrition", base_values |-> base_values,
              weight_in_grams |-> weight_in_grams]
  /\ ret' = Returned(calculate_nutrition(base_values, weight_in_grams))
  /\ UNCHANGED session

\* -------------------------------------------------------- normalizer
Underscore == {"_"}

\* \w of a Python str pattern: letters, digits and the underscore
WordChars == LowerLetters \cup UpperLetters \cup Digits \cup Underscore

\* the characters of the texts normalize_text is applied to
TextChars == {"a", "A", "7", "_", ",", " "}

\* a text argument: None/NaN, or a string
Missing == [missing |-> TRUE, text |-> <<>>]
Str(text) == [missing |-> FALSE, text |-> text]

Texts == {Missing} \cup {Str(t) : t \in UNION {[1..k -> TextChars] : k \in 0..MaxText}}

\* normalize_text: "" if pd.isna(text), else
\* re.sub(r'[^\w\s]', '', str(text).lower())
normalize_text(arg) ==
  IF arg.missing THEN <<>>
  ELSE SelectSeq(Lower(arg.text), LAMBDA c : c \in WordChars \cup Whitespace)

Normalize(arg) ==
  /\ call = NoCall
  /\ call' = [fn |-> "normalize_text", arg |-> arg]
  /\ ret' = Returned(normalize_text(arg))
  /\ UNCHANGED session

\* one application per behaviour
PureNext ==
  \/ /\ call = NoCall
     /\ \E entries \in ListsOf(Entries, MaxEntries),
           op \in {"none", "append", "update", "remove"},
           food \in Foods, pos \in 1..MaxEntries, weight \in Masses :
             DailyTotals(entries, op, food, pos, weight)
  \/ /\ call = NoCall
     /\ \E query \in Queries, names \in Catalogs, limit \in Limits,
           token_sort_ratio \in [Processed -> TokenSortScores],
           partial_ratio \in [Processed -> PartialScores] :
             Search(query, names, limit, token_sort_ratio, partial_ratio)
  \/ /\ call = NoCall
     /\ \E base_values \in BaseValues, weight_in_grams \in Weights :
             Calculate(base_values, weight_in_grams)
  \/ /\ call = NoCall
     /\ \E arg \in Texts : Normalize(arg)

PureSpec == PureInit /\ [][PureNext]_vars

\* ====================================================================
\* Properties
\* ====================================================================

\* the handler that ran in this step went through with its change
Did(names) == last'.op \in names /\ last'.branch \in {"done", "merged"}

\* every date but d holds what it held
OtherDatesKept(d) ==
  /\ DOMAIN food_logs' = DOMAIN food_logs
  /\ \A dd \in DOMAIN food_logs : dd # d => food_logs'[dd] = food_logs[dd]

\* the entry add_food_to_log would store for the per-100g snapshot of
\* entry and mass m
FreshEntry(entry, m) ==
  log_entry([FoodID |-> entry.food_id, FoodName |-> entry.food_name,
             Calories |-> entry.calories, Protein |-> entry.protein,
             Fat |-> entry.fat, Carbs |-> entry.carbs], m)

UpdatedAt(d, i, m) ==
  /\ d \in DOMAIN food_logs
  /\ i < Len(food_logs[d])
  /\ OtherDatesKept(d)
  /\ Len(food_logs'[d]) = Len(food_logs[d])
  /\ \A n \in 1..Len(food_logs[d]) : n # i + 1 => food_logs'[d][n] = food_logs[d][n]
  /\ LET old == food_logs[d][i + 1]
         new == food_logs'[d][i + 1]
     IN  /\ new.weight_g = m
         /\ new.total_calories = FreshEntry(old, m).total_calories
         /\ new.total_protein = FreshEntry(old, m).total_protein
         /\ new.total_fat = FreshEntry(old, m).total_fat
         /\ new.total_carbs = FreshEntry(old, m).total_carbs
         /\ new.food_id = old.food_id
         /\ new.food_name = old.food_name
         /\ new.calories = old.calories
         /\ new.protein = old.protein
         /\ new.fat = old.fat
         /\ new.carbs = old.carbs

\* C1: an update of the mass of the entry at a valid index i of a date to
\* m leaves that entry with mass m and with the four totals a fresh append
\* of its per-100g snapshot with mass m would store; its food id, name,
\* snapshot and position, every other entry and every other date are as
\* before.
C1_UpdateRecomputesTotals ==
  [][(Did({"update_food_entry", "UpdateBlock"}) /\ last'.index >= 0)
        => UpdatedAt(last'.date, last'.index, last'.weight)]_vars

\* an update changed the mass of the second entry of a date: the totals
\* of that entry are those of the new mass, the first entry is untouched
C1_Witness ==
  /\ last.op = "update_food_entry"
  /\ last.branch = "done"
  /\ last.index = 1
  /\ "success" \in msgs
  /\ last.date \in DOMAIN food_logs
  /\ Len(food_logs[last.date]) = 2
  /\ food_logs[last.date][2] = log_entry(food_db[1], 130)

\* c*m/100 rounded to the nearest integer (c*m/100 has no half for the
\* inputs of the model)
Nearest(c, m) == (c * m + 50) \div 100

\* C2: the entry that adding a food of c kcal per 100 g with mass m puts
\* into the log has total_calories = c*m/100 rounded to the nearest
\* integer.
C2_CaloriesRoundedToNearest ==
  [][Did({"add_food_to_log", "AddBlock"})
        => LET e == food_logs'[last'.date][last'.index + 1]
           IN  e.total_calories = Nearest(e.calories, e.weight_g)]_vars

RemovedAt(d, i) ==
  /\ OtherDatesKept(d)
  /\ Len(food_logs'[d]) = Len(food_logs[d]) - 1
  /\ \A n \in 1..i : food_logs'[d][n] = food_logs[d][n]
  /\ \A n \in (i + 1)..(Len(food_logs[d]) - 1) : food_logs'[d][n] = food_logs[d][n + 1]

\* C3: remove at a valid index i of a date of the store, whatever fields
\* the entry has, leaves the date's list one shorter, the entries before i
\* as they were and the entries after i one position down; the other dates
\* are unchanged.
C3_RemoveShiftsLeft ==
  [][\A d \in Dates, i \in 0..(MaxEntries - 1), wr \in WriteOutcomes :
        (remove_food_entry(d, i, wr) /\ d \in DOMAIN food_logs /\ i < Len(food_logs[d]))
           => RemovedAt(d, i)]_vars

\* the arguments name no entry: the date key is absent or the index is
\* outside 0..length-1
NotFound(d, i) == d \notin DOMAIN food_logs \/ i < 0 \/ i >= Len(food_logs[d])

\* C4: update and remove with an absent date key or an index outside
\* 0..length-1 (negative ones included) report an error and leave the
\* store unchanged.
C4_InvalidArgumentsFail ==
  [][\A d \in Dates, i \in Indices, w \in Masses, wr \in WriteOutcomes :
        ((update_food_entry(d, i, w, wr) \/ remove_food_entry(d, i, wr)) /\ NotFound(d, i))
           => ("error" \in msgs' /\ "success" \notin msgs' /\ food_logs' = food_logs)]_vars

\* the list an uploaded object holds under date d (keys are distinct)
Incoming(upload, d) ==
  LET n == CHOOSE k \in 1..Len(upload.items) : upload.items[k].date = d
  IN  upload.items[n].value.entries

UploadDates(upload) == {upload.items[k].date : k \in 1..Len(upload.items)}

MergedFrom(upload) ==
  /\ DOMAIN food_logs' = DOMAIN food_logs \cup UploadDates(upload)
  /\ \A d \in DOMAIN food_logs \cap UploadDates(upload) :
        /\ food_logs'[d] = food_logs[d] \o Incoming(upload, d)
        /\ Len(food_logs'[d]) = Len(food_logs[d]) + Len(Incoming(upload, d))
  /\ \A d \in UploadDates(upload) \ DOMAIN food_logs : food_logs'[d] = Incoming(upload, d)
  /\ \A d \in DOMAIN food_logs \ UploadDates(upload) : food_logs'[d] = food_logs[d]

\* C5: after a successful import a date of both the store and the upload
\* holds existing ++ incoming, a date of the upload only holds the
\* incoming list, a date of the store only is unchanged; nothing is
\* deduplicated, so importing a payload again appends its entries again.
C5_MergeAppendsIncoming ==
  [][Did({"render_settings_section"}) => MergedFrom(last'.upload)]_vars

\* an upload of one entry was imported into a date that already held an
\* equal entry: the date holds it twice
C5_Witness ==
  /\ last.op = "render_settings_section"
  /\ last.branch = "merged"
  /\ \E d \in DOMAIN food_logs :
        /\ d \in UploadDates(last.upload)
        /\ Incoming(last.upload, d) = <<FullEntry>>
        /\ food_logs[d] = <<FullEntry, FullEntry>>

\* C6: an import whose payload parses to something that is not a mapping
\* reports an error, and the store in memory and the file are what they
\* were.
C6_NonMappingImportRejected ==
  [][(last'.op = "render_settings_section" /\ last'.upload.kind = "other")
        => /\ "error" \in msgs'
           /\ "success" \notin msgs'
           /\ food_logs' = food_logs
           /\ file' = file]_vars

\* a non-mapping upload was rejected while the store held entries
C6_Witness ==
  /\ last.op = "render_settings_section"
  /\ last.upload.kind = "other"
  /\ msgs = {"error"}
  /\ Size(food_logs) > 0
  /\ file.kind = "dict"

\* C7: the list of a date is created when the date is first selected, so
\* the selected date always has one; an append puts the entry at the end
\* of the list of the selected date, keeps the entries stored before in
\* order and content and leaves the other dates unchanged.
C7_AppendAtEnd ==
  [][/\ app' \in {"modules", "script"} /\ logs_type' = "dict"
           => date_selector' \in DOMAIN food_logs'
     /\ (last'.op \in {"render_overview_section", "DateInput"} /\ last'.branch = "created")
           => /\ date_selector' \notin DOMAIN food_logs
              /\ food_logs' = SetKey(food_logs, date_selector', <<>>)
     /\ Did({"add_food_to_log", "AddBlock"})
           => /\ OtherDatesKept(date_selector)
              /\ Len(food_logs'[date_selector]) = Len(food_logs[date_selector]) + 1
              /\ SubSeq(food_logs'[date_selector], 1, Len(food_logs[date_selector]))
                    = food_logs[date_selector]
              /\ \E food \in Foods :
                    food_logs'[date_selector][Len(food_logs'[date_selector])]
                       = log_entry(food, last'.weight)]_vars

\* an entry was appended behind another one on a date other than today
C7_Witness ==
  /\ last.op = "add_food_to_log"
  /\ date_selector # Today
  /\ date_selector \in DOMAIN food_logs
  /\ food_logs[date_selector] = <<log_entry(food_db[1], 116), log_entry(food_db[1], 130)>>
  /\ last.weight = 130

\* C8: every append, update, remove and successful import writes the
\* file in the same step, and when the write succeeds the file holds the
\* whole store of the session.
C8_SavedWithEveryMutation ==
  [][/\ Did({"add_food_to_log", "AddBlock", "update_food_entry", "UpdateBlock",
             "remove_food_entry", "RemoveBlock", "render_settings_section"})
           => last'.write # "none"
     /\ last'.write = "ok" => file' = [kind |-> "dict", logs |-> food_logs']]_vars

\* a remove was saved while the store held both dates and an entry
C8_Witness ==
  /\ last.op = "remove_food_entry"
  /\ last.branch = "done"
  /\ last.write = "ok"
  /\ DOMAIN food_logs = Dates
  /\ Size(food_logs) = 1
  /\ file = [kind |-> "dict", logs |-> food_logs]

\* C9: when the write of the file fails during append, update, remove or
\* import, a failure is reported and no success is.
C9_SaveFailureReported ==
  [][last'.write = "truncated"
        => /\ msgs' \cap {"error", "exception"} # {}
           /\ "success" \notin msgs']_vars

\* C10: loading the log from a missing, empty, unparseable or otherwise
\* corrupt source (parseable content that is not a mapping included)
\* gives a session with an empty log and raises nothing.
C10_CorruptSourceLoadsEmpty ==
  [][(last'.op \in {"SessionInit", "load_food_logs"} /\ file.kind # "dict")
        => /\ logs_type' = "dict"
           /\ Size(food_logs') = 0
           /\ "exception" \notin msgs']_vars

\* C11: the totals calculate_daily_totals returns are, field by field, the
\* sums of the stored totals over the positions of the list, all zero for
\* the empty list; this holds for the list of a date as it stands after
\* an append, an update of a mass or a removal.
SumOver(log_entries, key, positions) ==
  LET RECURSIVE S(_)
      S(ps) == IF ps = {} THEN 0
               ELSE LET n == CHOOSE x \in ps : TRUE
                    IN  log_entries[n][key] + S(ps \ {n})
  IN  S(positions)

Searched == call.fn = "search_foods" /\ Len(Strip(call.query)) >= 2

\* the name equals the trimmed query, case aside
IsExact(row) == Upper(row.FoodName) = Upper(Strip(call.query))

SomeExact == \E n \in 1..Len(call.food_db) : IsExact(call.food_db[n])

TokenSort(row) == call.token_sort_ratio[Lower(row.FoodName)]

Partial(row) == call.partial_ratio[Lower(row.FoodName)]

SomeTokenSort == \E n \in 1..Len(call.food_db) : TokenSort(call.food_db[n]) >= 60

Returns(row) == \E n \in 1..Len(ret.value) : ret.value[n] = row

\* C12: when a name equals the trimmed query, case aside, the search
\* returns the rows with such a name, all of them and no other, in catalog
\* order, whatever the limit and the fuzzy scores are.
C12_ExactMatchesOnly ==
  (Searched /\ SomeExact) => ret.value = SelectSeq(call.food_db, IsExact)

\* two exact matches returned under limit 1, past a row between them that
\* scores 80 in the token-sort tier
C12_Witness ==
  /\ Searched
  /\ call.query = <<" ", "a", "P", " ">>
  /\ call.limit = 1
  /\ Len(call.food_db) = 3
  /\ call.food_db[2].FoodName = <<"P", "e">>
  /\ TokenSort(call.food_db[2]) = 80
  /\ ret.value = <<call.food_db[1], call.food_db[3]>>
  /\ ret.value[1].FoodName # ret.value[3 - 1].FoodName

\* C13: with no exact match and a name of token-sort score 60 or more,
\* the search returns at most limit rows, each of token-sort score 60 or
\* more, by descending score with rows of equal score in catalog order,
\* and no row left out scores higher than a returned one.
C13_TokenSortTier ==
  (Searched /\ ~SomeExact /\ SomeTokenSort) =>
    /\ Len(ret.value) <= call.limit
    /\ \A n \in 1..Len(ret.value) : TokenSort(ret.value[n]) >= 60
    /\ \A i, j \in 1..Len(ret.value) :
          i < j => \/ TokenSort(ret.value[i]) > TokenSort(ret.value[j])
                   \/ /\ TokenSort(ret.value[i]) = TokenSort(ret.value[j])
                      /\ ret.value[i].FoodID < ret.value[j].FoodID
    /\ \A n \in 1..Len(call.food_db), k \in 1..Len(ret.value) :
          ~Returns(call.food_db[n]) => TokenSort(call.food_db[n]) <= TokenSort(ret.value[k])

\* C14: the partial tier gives the result only when there is no exact
\* match and no name of token-sort score 60 or more; the result then has
\* rows of partial score 75 or more only, at most limit of them, by
\* descending score, and is empty when no name reaches 75; a result of
\* the token-sort tier has no row that only the partial tier would give.
C14_PartialTier ==
  Searched =>
    /\ (~SomeExact /\ ~SomeTokenSort) =>
          /\ \A n \in 1..Len(ret.value) : Partial(ret.value[n]) >= 75
          /\ Len(ret.value) <= call.limit
          /\ \A i, j \in 1..Len(ret.value) :
                i < j => Partial(ret.value[i]) >= Partial(ret.value[j])
          /\ (\A n \in 1..Len(call.food_db) : Partial(call.food_db[n]) < 75)
                => ret.value = <<>>
    /\ (~SomeExact /\ SomeTokenSort) =>
          \A n \in 1..Len(ret.value) : TokenSort(ret.value[n]) >= 60
    /\ SomeExact => \A n \in 1..Len(ret.value) : IsExact(ret.value[n])

\* C15: calculate_nutrition rejects a mass of 0 or less instead of
\* returning a scaled record; for a mass above 0, however large, it
\* returns every field times mass/100, unrounded.
C15_ScaleRejectsNonPositive ==
  call.fn = "calculate_nutrition" =>
    IF call.weight_in_grams <= 0 THEN ret.raised
    ELSE /\ ~ret.raised
         /\ DOMAIN ret.value = DOMAIN call.base_values
         /\ \A k \in DOMAIN call.base_values :
               \* the value v*w/100, times 100
               ret.value[k].v * ret.value[k].w
                 = call.base_values[k] * call.weight_in_grams

\* C16: normalize_text gives the same for its own result and for the
\* upper-cased text; the result has no upper-case letter and nothing but
\* letters, digits and whitespace; a missing text gives "".
C16_NormalizeIdempotent ==
  call.fn = "normalize_text" =>
    IF call.arg.missing THEN ret.value = <<>>
    ELSE /\ normalize_text(Str(ret.value)) = ret.value
         /\ normalize_text(Str(Upper(call.arg.text))) = ret.value
         /\ \A n \in 1..Len(ret.value) :
               /\ ret.value[n] \notin UpperLetters
               /\ ret.value[n] \in LowerLetters \cup UpperLetters \cup Digits \cup Whitespace

\* C17: an import that returns success = False, for whatever reason,
\* leaves the list of every date of the store as it was before the call.
C17_FailedImportChangesNothing ==
  [][(last'.op = "render_settings_section" /\ last'.branch # "merged")
       => food_logs' = food_logs]_vars

\* C18: the entries of an uploaded valid file are merged once: in the
\* runs that follow the import without a user action, the file still
\* being in the uploader, the store keeps what the import left, the
\* lists of existing then incoming entries.
C18_MergedOnce ==
  [][last'.op = "Rerun" => food_logs' = food_logs]_vars

====
